---------------------------- MODULE Spec2Model ----------------------------
(***************************************************************************)
(* A model of the dcrdex admin server's request handlers                   *)
(* (server/admin/api.go): the market status queries, the market            *)
(* suspension handler and the account ban handler, behind the basic-auth   *)
(* middleware, talking to the Core collaborator (SvrCore).                 *)
(*                                                                         *)
(* Text (path parameters, query values, passwords) is a sequence of        *)
(* one-character strings, so that parsing, lower-casing and hex decoding   *)
(* are computed character by character as the Go library does.             *)
(***************************************************************************)
EXTENDS Integers, Sequences, FiniteSets, TLC

(***************************************************************************)
(* Bounds of the model.                                                    *)
(***************************************************************************)
\* The wall clock runs from 1 to MaxClock (milliseconds, scaled).
MaxClock == 3
\* Epoch indices of a market run from 1 to MaxEpoch.
MaxEpoch == 2
\* strconv parses into 64-bit integers; the width is scaled down so that the
\* range check (ErrRange) can be computed without overflowing the checker.
IntBits == 16
\* The epoch duration of every market, in milliseconds (scaled).
EpochLen == 10

(***************************************************************************)
(* Program constants.                                                      *)
(***************************************************************************)
\* account.HashSize: the byte length of an account.AccountID.
HashSize == 32
\* account.MaxRule: the first rule value that is not a known rule.
MaxRule == 5
\* The zero time.Time (January 1, year 1) in Unix milliseconds, scaled: it
\* lies before the Unix epoch and before every value of the clock.
ZeroTimeMs == -1000

StatusOK == 200
StatusBadRequest == 400
StatusUnauthorized == 401
StatusInternalServerError == 500

(***************************************************************************)
(* Text helpers.                                                           *)
(***************************************************************************)
Rep(c, n) == [i \in 1..n |-> c]

UpperChars ==
  <<"A","B","C","D","E","F","G","H","I","J","K","L","M",
    "N","O","P","Q","R","S","T","U","V","W","X","Y","Z">>
LowerChars ==
  <<"a","b","c","d","e","f","g","h","i","j","k","l","m",
    "n","o","p","q","r","s","t","u","v","w","x","y","z">>
DigitChars == <<"0","1","2","3","4","5","6","7","8","9">>
HexDigits  == <<"0","1","2","3","4","5","6","7","8","9","a","b","c","d","e","f">>

Range(s) == {s[i] : i \in DOMAIN s}
IndexOf(c, s) == CHOOSE i \in DOMAIN s : s[i] = c

\* unicode.ToLower on one ASCII character.
ToLowerChar(c) ==
  IF c \in Range(UpperChars) THEN LowerChars[IndexOf(c, UpperChars)] ELSE c

\* strings.ToLower.
ToLower(s) == [i \in DOMAIN s |-> ToLowerChar(s[i])]

\* url.Values.Get: the value of the key, or the empty string when the key is
\* not in the query.
Get(query, key) == IF key \in DOMAIN query THEN query[key] ELSE <<>>

(***************************************************************************)
(* strconv.ParseInt(s, 10, 64) and strconv.Atoi: an optional sign, then at *)
(* least one decimal digit, and the value must fit the integer width.      *)
(* The result is [ok, val]; ok = FALSE stands for ErrSyntax or ErrRange.   *)
(***************************************************************************)
MaxInt == 2 ^ (IntBits - 1) - 1

RECURSIVE ParseUint(_, _, _)
\* Accumulates the digits of s from position i on into acc; -1 when a
\* character is no digit, -2 when the value passes cutoff.
ParseUint(s, i, acc) ==
  IF i > Len(s) THEN acc
  ELSE IF s[i] \notin Range(DigitChars) THEN -1
  ELSE LET d == IndexOf(s[i], DigitChars) - 1
           n == acc * 10 + d
       IN  IF n > MaxInt + 1 THEN -2 ELSE ParseUint(s, i + 1, n)

ParseInt(s) ==
  LET neg  == Len(s) > 0 /\ s[1] = "-"
      sign == Len(s) > 0 /\ s[1] \in {"+", "-"}
      from == IF sign THEN 2 ELSE 1
      un   == IF from > Len(s) THEN -1 ELSE ParseUint(s, from, 0)
  IN  IF un < 0 THEN [ok |-> FALSE, val |-> 0]
      ELSE IF ~neg /\ un > MaxInt THEN [ok |-> FALSE, val |-> 0]
      ELSE [ok |-> TRUE, val |-> IF neg THEN 0 - un ELSE un]

Atoi(s) == ParseInt(s)

\* strconv.ParseBool.
TrueTexts  == { <<"1">>, <<"t">>, <<"T">>, <<"T","R","U","E">>,
                <<"t","r","u","e">>, <<"T","r","u","e">> }
FalseTexts == { <<"0">>, <<"f">>, <<"F">>, <<"F","A","L","S","E">>,
                <<"f","a","l","s","e">>, <<"F","a","l","s","e">> }
ParseBool(s) ==
  IF s \in TrueTexts THEN [ok |-> TRUE, val |-> TRUE]
  ELSE IF s \in FalseTexts THEN [ok |-> TRUE, val |-> FALSE]
  ELSE [ok |-> FALSE, val |-> FALSE]

(***************************************************************************)
(* encoding/hex.                                                           *)
(***************************************************************************)
IsHexChar(c) == ToLowerChar(c) \in Range(HexDigits)
FromHexChar(c) == IndexOf(ToLowerChar(c), HexDigits) - 1

\* hex.DecodeString: fails on an odd length or on a character that is no hex
\* digit; otherwise one byte for each pair of characters.
DecodeString(s) ==
  IF Len(s) % 2 # 0 \/ \E i \in DOMAIN s : ~IsHexChar(s[i])
  THEN [ok |-> FALSE, bytes |-> <<>>]
  ELSE [ok |-> TRUE,
        bytes |-> [i \in 1..(Len(s) \div 2) |->
                     FromHexChar(s[2*i - 1]) * 16 + FromHexChar(s[2*i])]]

\* hex.EncodeToString: two lower-case hex digits for each byte.
EncodeToString(b) ==
  [i \in 1..(2 * Len(b)) |->
     LET byte == b[(i + 1) \div 2]
     IN  IF i % 2 = 1 THEN HexDigits[(byte \div 16) + 1]
         ELSE HexDigits[(byte % 16) + 1]]

(***************************************************************************)
(* Inputs: the texts requests are built from.                              *)
(***************************************************************************)
DcrBtc      == <<"d","c","r","_","b","t","c">>
DcrBtcUpper == <<"D","C","R","_","b","t","c">>
BtcLtc      == <<"b","t","c","_","l","t","c">>
NoMarket    == <<"x","_","y">>
KnownMarkets == {DcrBtc, BtcLtc}
MarketNames  == {DcrBtc, DcrBtcUpper, BtcLtc, NoMarket}

\* The password of TestAuthMiddleware and the passwords it presents.
Password    == <<"p","a","s","s","w","o","r","d","1","2","3">>
Passwords   == {Password, Tail(Password), <<>>, <<"w","r","o","n","g">>}
Users       == {<<>>, <<"u","s","e","r">>}

\* Values of the query parameter t: times around the clock's range, the
\* Unix epoch, the zero time.Time, a number out of range and a non-number.
TimeTexts   == { <<>>, <<"2">>, <<"+","3">>, <<"0">>, <<"-","1","0","0","0">>,
                 <<"9","9","9","9","9","9">>, <<"2","x">> }
PersistTexts == { <<>>, <<"T">>, <<"f","a","l","s","e">>, <<"y","e","s">> }
RuleTexts   == { <<>>, <<"0">>, <<"1">>, <<"+","4">>, <<"5">>, <<"2","5","7">>,
                 <<"-","1">>, <<"o","n","e">> }

\* Account identifiers as the path presents them: 64 lower-case hex digits,
\* the same in upper and mixed case, 62 and 66 digits, an odd number of
\* digits and a text that is no hex.
AcctLower   == <<"a","b">> \o Rep("0", 2 * HashSize - 4) \o <<"9","f">>
AcctUpper   == <<"A","B">> \o Rep("0", 2 * HashSize - 4) \o <<"9","F">>
AcctMixed   == <<"a","B">> \o Rep("0", 2 * HashSize - 4) \o <<"9","f">>
AcctShort   == Rep("0", 2 * HashSize - 2)
AcctLong    == Rep("0", 2 * HashSize + 2)
AcctOdd     == Rep("0", 2 * HashSize - 1)
AcctNoHex   == <<"z","z">> \o Rep("0", 2 * HashSize - 2)
AccountTexts == {AcctLower, AcctUpper, AcctMixed, AcctShort, AcctLong,
                 AcctOdd, AcctNoHex}

\* A query: a function from the keys present to their values. opt maps
\* each key to the empty tuple (absent) or to a one-element tuple.
MkQuery(opt) == [k \in {k \in DOMAIN opt : opt[k] # <<>>} |-> opt[k][1]]
Opt(S) == {<<>>} \cup {<<x>> : x \in S}

SuspendQueries ==
  {MkQuery([t |-> a, persist |-> b]) : a \in Opt(TimeTexts), b \in Opt(PersistTexts)}
BanQueries == {MkQuery([rule |-> a]) : a \in Opt(RuleTexts)}
NoQuery == MkQuery([t |-> <<>>])

(***************************************************************************)
(* State.                                                                  *)
(*   now   the wall clock (time.Now), in milliseconds                      *)
(*   mkts  the Core collaborator's markets: name -> status                 *)
(*   req   the requests being served, by connection: the request's inputs, *)
(*         the handler's position (pc) and locals (loc), the collaborator  *)
(*         calls it made (calls) and the response written (resp)           *)
(***************************************************************************)
VARIABLES now, mkts, req

vars == <<now, mkts, req>>

NoResp == [code |-> 0, kind |-> "none"]

NoLoc ==
  [mkt |-> <<>>, found |-> FALSE, running |-> FALSE, tNow |-> 0,
   suspTime |-> ZeroTimeMs, persistBook |-> TRUE, status |-> <<>>,
   statuses |-> <<>>]

IdleReq ==
  [route |-> "none", pc |-> "idle", hasAuth |-> FALSE, user |-> <<>>,
   pass |-> <<>>, path |-> <<>>, query |-> NoQuery, loc |-> NoLoc,
   calls |-> <<>>, resp |-> NoResp]

\* http.Error: a plain-text message with a status code.
HttpError(msg, code) == [code |-> code, kind |-> "error", msg |-> msg]

(***************************************************************************)
(* The Core collaborator (SvrCore), as its interface describes it.         *)
(***************************************************************************)
InitStatuses ==
  [Running : BOOLEAN, EpochDuration : {EpochLen}, ActiveEpoch : {1},
   StartEpoch : {1}, SuspendEpoch : {0}, PersistBook : {TRUE}]

\* MarketRunning(name) -> (found, running).
MarketRunning(mkt) ==
  IF mkt \in DOMAIN mkts
  THEN [found |-> TRUE, running |-> mkts[mkt].Running]
  ELSE [found |-> FALSE, running |-> FALSE]

\* MarketStatus(name) -> status or absent (the empty tuple).
MarketStatus(mkt) == IF mkt \in DOMAIN mkts THEN <<mkts[mkt]>> ELSE <<>>

\* MarketStatuses() -> mapping name -> status.
MarketStatuses == mkts

\* SuspendMarket(name, time, persistBook) -> SuspendEpoch or absent: what
\* the collaborator may return, each with the markets it leaves. An unknown
\* market gives absent; a known one gives absent or a final epoch no
\* earlier than the active one, whose end time follows from the index.
SuspendMarket(mkt, tSusp, persistBook) ==
  {[ret |-> <<>>, mkts |-> mkts]} \cup
  IF mkt \notin DOMAIN mkts THEN {}
  ELSE {[ret  |-> <<[Idx |-> i, End |-> (i + 1) * mkts[mkt].EpochDuration]>>,
         mkts |-> [mkts EXCEPT ![mkt].SuspendEpoch = i,
                               ![mkt].PersistBook = persistBook]]
          : i \in mkts[mkt].ActiveEpoch .. MaxEpoch}

\* Penalize(id, rule) -> success or failure.
Penalize(acctID, rule) == BOOLEAN

\* An epoch of a running market ends: the market suspends when that was its
\* final epoch, and moves to the next epoch otherwise.
CoreEpochEnd(m) ==
  /\ mkts[m].Running
  /\ IF mkts[m].SuspendEpoch # 0 /\ mkts[m].ActiveEpoch >= mkts[m].SuspendEpoch
     THEN mkts' = [mkts EXCEPT ![m].Running = FALSE]
     ELSE /\ mkts[m].ActiveEpoch < MaxEpoch
          /\ mkts' = [mkts EXCEPT ![m].ActiveEpoch = @ + 1]
  /\ UNCHANGED <<now, req>>

\* A suspended market is started again at its active epoch.
CoreResume(m) ==
  /\ ~mkts[m].Running
  /\ mkts' = [mkts EXCEPT ![m].Running = TRUE, ![m].SuspendEpoch = 0,
                          ![m].StartEpoch = mkts[m].ActiveEpoch]
  /\ UNCHANGED <<now, req>>

\* The wall clock advances.
Tick ==
  /\ now < MaxClock
  /\ now' = now + 1
  /\ UNCHANGED <<mkts, req>>

(***************************************************************************)
(* The basic-auth middleware.                                              *)
(***************************************************************************)
\* sha256.Sum256, as a collision-free digest of the text: the length, then
\* each character's code mixed with its position.
Alphabet == LowerChars \o UpperChars \o DigitChars \o <<"_", "+", "-">>
Sum256(p) ==
  <<Len(p)>> \o [i \in 1..Len(p) |-> (IndexOf(p[i], Alphabet) * 7 + i) % 251]

\* The digest the server is configured with (SrvConfig.AuthSHA).
authSHA == Sum256(Password)

\* subtle.ConstantTimeCompare: 1 when the two digests are equal, else 0.
ConstantTimeCompare(a, b) == IF a = b THEN 1 ELSE 0

\* The middleware also asking for a user name.
authMiddlewareNamed(hasAuth, user, pass) ==
  hasAuth /\ user # <<>> /\ ConstantTimeCompare(authSHA, Sum256(pass)) = 1

\* authMiddleware: the user name is ignored; the request goes on to the
\* handler when it carries basic-auth credentials whose password's digest
\* is the configured one.
authMiddleware(hasAuth, user, pass) ==
  hasAuth /\ ConstantTimeCompare(authSHA, Sum256(pass)) = 1

Credentials ==
  {[hasAuth |-> FALSE, user |-> <<>>, pass |-> <<>>]} \cup
  [hasAuth : {TRUE}, user : Users, pass : Passwords]

\* A request arrives on connection r and passes through the middleware: it
\* is answered 401 there, or handed to its route's handler.
ServeHTTP(r, route, cred, path, query) ==
  /\ req[r].pc = "idle"
  /\ req' = [req EXCEPT ![r] =
       [IdleReq EXCEPT !.route = route, !.hasAuth = cred.hasAuth,
                       !.user = cred.user, !.pass = cred.pass,
                       !.path = path, !.query = query,
                       !.pc = IF authMiddleware(cred.hasAuth, cred.user, cred.pass)
                              THEN "handler" ELSE "done",
                       !.resp = IF authMiddleware(cred.hasAuth, cred.user, cred.pass)
                                THEN NoResp
                                ELSE HttpError("401 Unauthorized", StatusUnauthorized)]]
  /\ UNCHANGED <<now, mkts>>

\* The response has been sent: the connection is free for the next request.
Finish(r) ==
  /\ req[r].pc = "done"
  /\ req' = [req EXCEPT ![r] = IdleReq]
  /\ UNCHANGED <<now, mkts>>

\* Whether the request on connection r is in its route's handler at pc.
At(r, route, pc) == req[r].route = route /\ req[r].pc = pc

\* The handler on connection r returns having written resp.
Respond(r, resp) == [req EXCEPT ![r].pc = "done", ![r].resp = resp]

(***************************************************************************)
(* /ping                                                                   *)
(***************************************************************************)
apiPing(r) ==
  /\ At(r, "ping", "handler")
  /\ req' = Respond(r, [code |-> StatusOK, kind |-> "pong"])
  /\ UNCHANGED <<now, mkts>>

(***************************************************************************)
(* /markets and /market/{marketName}                                       *)
(***************************************************************************)
\* The PersistBook pointer set whatever the suspend epoch is.
persistPtrAlways(status) == <<status.PersistBook>>

\* The PersistBook pointer of a MarketStatus: set (a one-element tuple)
\* only when the collaborator's status has a suspend epoch.
persistPtr(status) ==
  IF status.SuspendEpoch # 0 THEN <<status.PersistBook>> ELSE <<>>

\* The MarketStatus apiMarkets builds for one entry of MarketStatuses().
marketsEntry(status) ==
  [Name          |-> <<>>,
   Running       |-> status.Running,
   EpochDuration |-> status.EpochDuration,
   ActiveEpoch   |-> status.ActiveEpoch,
   StartEpoch    |-> status.StartEpoch,
   SuspendEpoch  |-> status.SuspendEpoch,
   PersistBook   |-> persistPtr(status)]

\* The MarketStatus apiMarketInfo builds from MarketStatus(mkt).
marketInfoStatus(mkt, status) ==
  [Name          |-> mkt,
   Running       |-> status.Running,
   EpochDuration |-> status.EpochDuration,
   ActiveEpoch   |-> status.ActiveEpoch,
   StartEpoch    |-> status.ActiveEpoch,
   SuspendEpoch  |-> status.SuspendEpoch,
   PersistBook   |-> persistPtr(status)]

\* The fields of a MarketStatus that its JSON encoding carries: the name,
\* the suspend epoch and the persist flag are left out when empty.
JSONFields(ms) ==
  {"running", "epochDuration", "activeEpoch", "startEpoch"}
    \cup (IF ms.Name # <<>> THEN {"name"} ELSE {})
    \cup (IF ms.SuspendEpoch # 0 THEN {"suspendEpoch"} ELSE {})
    \cup (IF ms.PersistBook # <<>> THEN {"persistBook"} ELSE {})

apiMarkets(r) ==
  /\ At(r, "markets", "handler")
  /\ LET statuses == MarketStatuses
     IN  req' = [Respond(r, [code |-> StatusOK, kind |-> "markets",
                             body |-> [name \in DOMAIN statuses |->
                                         marketsEntry(statuses[name])]])
                   EXCEPT ![r].loc.statuses = statuses]
  /\ UNCHANGED <<now, mkts>>

apiMarketInfo(r) ==
  /\ At(r, "market", "handler")
  /\ LET mkt    == ToLower(req[r].path)
         status == MarketStatus(mkt)
     IN  req' = [(IF status = <<>>
                  THEN Respond(r, HttpError("unknown market", StatusBadRequest))
                  ELSE Respond(r, [code |-> StatusOK, kind |-> "MarketStatus",
                                   body |-> marketInfoStatus(mkt, status[1])]))
                   EXCEPT ![r].loc.mkt = mkt, ![r].loc.status = status]
  /\ UNCHANGED <<now, mkts>>

(***************************************************************************)
(* /market/{marketName}/suspend?t=EPOCH-MS&persist=BOOL                    *)
(*                                                                         *)
(* The handler reads the collaborator and the clock at three moments, and  *)
(* other requests, the collaborator and the clock may act in between:      *)
(* MarketRunning (apiSuspendRunning), time.Until (apiSuspendValidate) and  *)
(* SuspendMarket (apiSuspendCall).                                         *)
(***************************************************************************)
\* The market check without its test that the market is running.
marketCheckFoundOnly(found, running) ==
  IF ~found THEN "unknown market" ELSE ""

\* The market check: "" when the handler goes on, else the error message.
marketCheck(found, running) ==
  IF ~found THEN "unknown market"
  ELSE IF ~running THEN "market not running"
  ELSE ""

\* encode.UnixTimeMilli: the time of a count of milliseconds.
UnixTimeMilli(ms) == ms

\* The time check with its comparison turned around.
inThePastReversed(suspTime, tNow) == suspTime - tNow > 0

\* time.Until(suspTime) < 0, with tNow the clock that time.Until reads.
inThePast(suspTime, tNow) == suspTime - tNow < 0

\* The suspend time of the query: the zero time when t is not specified.
\* [err, suspTime]; err = "" when the time is accepted.
suspendTime(tSuspendStr, tNow) ==
  IF tSuspendStr = <<>> THEN [err |-> "", suspTime |-> ZeroTimeMs]
  ELSE LET p == ParseInt(tSuspendStr)
       IN  IF ~p.ok THEN [err |-> "invalid suspend time", suspTime |-> ZeroTimeMs]
           ELSE IF inThePast(UnixTimeMilli(p.val), tNow)
                THEN [err |-> "specified market suspend time is in the past",
                      suspTime |-> UnixTimeMilli(p.val)]
                ELSE [err |-> "", suspTime |-> UnixTimeMilli(p.val)]

\* The persist flag defaulting to false (purge the book).
persistFlagPurge(persistBookStr) ==
  IF persistBookStr = <<>> THEN [err |-> "", persistBook |-> FALSE]
  ELSE LET p == ParseBool(persistBookStr)
       IN  IF ~p.ok THEN [err |-> "invalid persist book boolean", persistBook |-> p.val]
           ELSE [err |-> "", persistBook |-> p.val]

\* The persist flag of the query: true (keep the book) when not specified.
persistFlag(persistBookStr) ==
  IF persistBookStr = <<>> THEN [err |-> "", persistBook |-> TRUE]
  ELSE LET p == ParseBool(persistBookStr)
       IN  IF ~p.ok THEN [err |-> "invalid persist book boolean", persistBook |-> p.val]
           ELSE [err |-> "", persistBook |-> p.val]

\* The suspend response reporting the epoch after the one returned.
suspendResponseNextEpoch(mkt, suspEpoch) ==
  IF suspEpoch = <<>>
  THEN HttpError("failed to suspend market", StatusInternalServerError)
  ELSE [code |-> StatusOK, kind |-> "SuspendResult", Market |-> mkt,
        FinalEpoch |-> suspEpoch[1].Idx + 1, SuspendTime |-> suspEpoch[1].End]

\* The response to what SuspendMarket returned.
suspendResponse(mkt, suspEpoch) ==
  IF suspEpoch = <<>>
  THEN HttpError("failed to suspend market", StatusInternalServerError)
  ELSE [code |-> StatusOK, kind |-> "SuspendResult", Market |-> mkt,
        FinalEpoch |-> suspEpoch[1].Idx, SuspendTime |-> suspEpoch[1].End]

apiSuspendRunning(r) ==
  /\ At(r, "suspend", "handler")
  /\ LET mkt == ToLower(req[r].path)
         mr  == MarketRunning(mkt)
         err == marketCheck(mr.found, mr.running)
     IN  req' = [(IF err # "" THEN Respond(r, HttpError(err, StatusBadRequest))
                  ELSE [req EXCEPT ![r].pc = "validate"])
                   EXCEPT ![r].loc.mkt = mkt, ![r].loc.found = mr.found,
                          ![r].loc.running = mr.running]
  /\ UNCHANGED <<now, mkts>>

apiSuspendValidate(r) ==
  /\ At(r, "suspend", "validate")
  /\ LET t == suspendTime(Get(req[r].query, "t"), now)
         p == persistFlag(Get(req[r].query, "persist"))
     IN  req' = [(IF t.err # "" THEN Respond(r, HttpError(t.err, StatusBadRequest))
                  ELSE IF p.err # "" THEN Respond(r, HttpError(p.err, StatusBadRequest))
                  ELSE [req EXCEPT ![r].pc = "call", ![r].loc.persistBook = p.persistBook])
                   EXCEPT ![r].loc.tNow = now, ![r].loc.suspTime = t.suspTime]
  /\ UNCHANGED <<now, mkts>>

apiSuspendCall(r) ==
  /\ At(r, "suspend", "call")
  /\ LET l == req[r].loc
     IN  \E out \in SuspendMarket(l.mkt, l.suspTime, l.persistBook) :
           /\ mkts' = out.mkts
           /\ req' = [Respond(r, suspendResponse(l.mkt, out.ret))
                        EXCEPT ![r].calls = Append(@,
                          [fn |-> "SuspendMarket", mkt |-> l.mkt,
                           time |-> l.suspTime, persistBook |-> l.persistBook,
                           ret |-> out.ret,
                           at |-> [found |-> MarketRunning(l.mkt).found,
                                   running |-> MarketRunning(l.mkt).running,
                                   now |-> now]])]
  /\ UNCHANGED now

(***************************************************************************)
(* /account/{accountID}/ban?rule=RULE                                      *)
(***************************************************************************)
\* The rule check with both of its limits off by one.
badRuleOffByOne(ruleInt) == ruleInt < 0 \/ ruleInt > MaxRule

\* Whether the rule is not one an account can be penalized for.
badRule(ruleInt) == ruleInt < 1 \/ ruleInt >= MaxRule

\* account.Rule(ruleInt) and byte(ruleInt): conversion to eight bits.
Uint8(n) == n % 256

\* The handler's checks of the identifier and the rule: "" when the ban goes
\* on to the collaborator, else the error message.
banCheck(acctIDStr, ruleStr) ==
  LET id == DecodeString(acctIDStr)
  IN  IF ~id.ok THEN "could not decode accout id"
      ELSE IF Len(id.bytes) # HashSize THEN "account id has incorrect length"
      ELSE IF ruleStr = <<>> THEN "rule not specified"
      ELSE IF ~Atoi(ruleStr).ok THEN "bad rule"
      ELSE IF badRule(Atoi(ruleStr).val) THEN "bad rule: not known or not punishable"
      ELSE ""

\* The ban response that does not look at what Penalize returned.
banResponseUnchecked(acctIDStr, ruleInt, ok, tNow) ==
  [code |-> StatusOK, kind |-> "BanResult", AccountID |-> acctIDStr,
   BrokenRule |-> Uint8(ruleInt), BanTime |-> tNow]

\* The response to what Penalize returned.
banResponse(acctIDStr, ruleInt, ok, tNow) ==
  IF ~ok THEN HttpError("failed to ban account", StatusInternalServerError)
  ELSE [code |-> StatusOK, kind |-> "BanResult", AccountID |-> acctIDStr,
        BrokenRule |-> Uint8(ruleInt), BanTime |-> tNow]

apiBan(r) ==
  /\ At(r, "ban", "handler")
  /\ LET acctIDStr == req[r].path
         ruleStr   == Get(req[r].query, "rule")
         err       == banCheck(acctIDStr, ruleStr)
     IN  IF err # ""
         THEN req' = Respond(r, HttpError(err, StatusBadRequest))
         ELSE LET acctID  == DecodeString(acctIDStr).bytes
                  ruleInt == Atoi(ruleStr).val
              IN  \E ok \in Penalize(acctID, Uint8(ruleInt)) :
                    req' = [Respond(r, banResponse(acctIDStr, ruleInt, ok, now))
                              EXCEPT ![r].calls = Append(@,
                                [fn |-> "Penalize", acctID |-> acctID,
                                 rule |-> Uint8(ruleInt), ok |-> ok])]
  /\ UNCHANGED <<now, mkts>>

(***************************************************************************)
(* The server.                                                             *)
(***************************************************************************)
\* The requests of each route.
PingRequests    == [route : {"ping"}, path : {<<>>}, query : {NoQuery}]
MarketsRequests == [route : {"markets"}, path : {<<>>}, query : {NoQuery}]
MarketRequests  == [route : {"market"}, path : MarketNames, query : {NoQuery}]
SuspendRequests == [route : {"suspend"}, path : MarketNames, query : SuspendQueries]
BanRequests     == [route : {"ban"}, path : AccountTexts, query : BanQueries]
Requests ==
  PingRequests \cup MarketsRequests \cup MarketRequests \cup SuspendRequests
    \cup BanRequests

\* A few suspend requests: as soon as possible or at time 2, keeping or
\* purging the book.
FewSuspendRequests ==
  {q \in SuspendRequests :
     /\ q.path \in {DcrBtc, BtcLtc}
     /\ Get(q.query, "t") \in {<<>>, <<"2">>}
     /\ Get(q.query, "persist") \in {<<>>, <<"f","a","l","s","e">>}
     /\ \A k \in DOMAIN q.query : q.query[k] # <<>>}

\* Suspend requests for one market, as soon as possible or at time 2.
TimedSuspendRequests ==
  {q \in FewSuspendRequests : q.path = DcrBtc /\ "persist" \notin DOMAIN q.query}

\* The operator's credentials.
AdminCredentials == {[hasAuth |-> TRUE, user |-> <<"u","s","e","r">>, pass |-> Password]}

\* A request of Reqs with credentials of Creds arrives on connection r.
Serve(r, Reqs, Creds) ==
  \E q \in Reqs, cred \in Creds :
    ServeHTTP(r, q.route, cred, q.path, q.query)

\* The server starts with the markets of Markets, on the connections Conns.
InitWith(Conns, Markets) ==
  /\ now = 1
  /\ mkts \in [Markets -> InitStatuses]
  /\ req = [r \in Conns |-> IdleReq]

Init == InitWith({"c1"}, KnownMarkets)

Handlers ==
  \/ \E r \in DOMAIN req : Finish(r)
  \/ \E r \in DOMAIN req : apiPing(r)
  \/ \E r \in DOMAIN req : apiMarkets(r)
  \/ \E r \in DOMAIN req : apiMarketInfo(r)
  \/ \E r \in DOMAIN req : apiSuspendRunning(r)
  \/ \E r \in DOMAIN req : apiSuspendValidate(r)
  \/ \E r \in DOMAIN req : apiSuspendCall(r)
  \/ \E r \in DOMAIN req : apiBan(r)

Core ==
  \/ \E m \in DOMAIN mkts : CoreEpochEnd(m)
  \/ \E m \in DOMAIN mkts : CoreResume(m)

\* The whole server: any request with any credentials on one connection.
\* The specifications below take the same actions with the requests of one
\* feature each, which keeps each state space small enough to explore fully.
Next ==
  \/ \E r \in DOMAIN req : Serve(r, Requests, Credentials)
  \/ Handlers
  \/ Core
  \/ Tick

Spec == Init /\ [][Next]_vars

\* Authentication: every route, with every kind of credentials.
NextAuth ==
  \/ \E r \in DOMAIN req :
       Serve(r, PingRequests \cup MarketsRequests \cup MarketRequests
                  \cup FewSuspendRequests
                  \cup {q \in BanRequests : q.path \in {AcctLower, AcctShort}},
             Credentials)
  \/ Handlers

SpecAuth == Init /\ [][NextAuth]_vars

\* Market status: the status queries, while suspensions are scheduled and
\* the markets' epochs go by.
NextStatus ==
  \/ \E r \in DOMAIN req :
       Serve(r, MarketsRequests \cup MarketRequests \cup FewSuspendRequests,
             AdminCredentials)
  \/ \E r \in DOMAIN req : Finish(r)
  \/ \E r \in DOMAIN req : apiMarkets(r)
  \/ \E r \in DOMAIN req : apiMarketInfo(r)
  \/ \E r \in DOMAIN req : apiSuspendRunning(r)
  \/ \E r \in DOMAIN req : apiSuspendValidate(r)
  \/ \E r \in DOMAIN req : apiSuspendCall(r)
  \/ Core

SpecStatus == Init /\ [][NextStatus]_vars

\* Suspension: every suspend request, while the clock advances.
NextSuspend ==
  \/ \E r \in DOMAIN req : Serve(r, SuspendRequests, AdminCredentials)
  \/ \E r \in DOMAIN req : Finish(r)
  \/ \E r \in DOMAIN req : apiSuspendRunning(r)
  \/ \E r \in DOMAIN req : apiSuspendValidate(r)
  \/ \E r \in DOMAIN req : apiSuspendCall(r)
  \/ Tick

SpecSuspend == Init /\ [][NextSuspend]_vars

\* Concurrent suspension: suspend requests on two connections of a server
\* with one market, interleaved with each other, with the market's epochs
\* and with the clock.
NextConcurrent ==
  \/ \E r \in DOMAIN req : Serve(r, TimedSuspendRequests, AdminCredentials)
  \/ \E r \in DOMAIN req : Finish(r)
  \/ \E r \in DOMAIN req : apiSuspendRunning(r)
  \/ \E r \in DOMAIN req : apiSuspendValidate(r)
  \/ \E r \in DOMAIN req : apiSuspendCall(r)
  \/ Core
  \/ Tick

SpecConcurrent == InitWith({"c1", "c2"}, {DcrBtc}) /\ [][NextConcurrent]_vars

\* Bans: every ban request, while the clock advances.
NextBan ==
  \/ \E r \in DOMAIN req : Serve(r, BanRequests, AdminCredentials)
  \/ \E r \in DOMAIN req : Finish(r)
  \/ \E r \in DOMAIN req : apiBan(r)
  \/ Tick

SpecBan == Init /\ [][NextBan]_vars

(***************************************************************************)
(* The claims.                                                             *)
(***************************************************************************)
\* The request on connection r was handled by the handler of route, which
\* has returned.
Handled(r, route) ==
  /\ req[r].route = route
  /\ req[r].pc = "done"
  /\ req[r].resp.code # StatusUnauthorized

\* The request on connection r has called fn on the collaborator.
Called(r, fn) == \E i \in DOMAIN req[r].calls : req[r].calls[i].fn = fn

IsBadRequest(r) ==
  req[r].pc = "done" /\ req[r].resp.code = StatusBadRequest /\ req[r].resp.kind = "error"

\* The checks of a suspend request, from its inputs, what MarketRunning
\* reported to it and the clock it read. Unset stands for the values of a
\* parameter that count as not given.
SuspendValid(r, Unset(_, _)) ==
  LET q == req[r].query
      l == req[r].loc
  IN  /\ l.mkt = ToLower(req[r].path)
      /\ l.found /\ l.running
      /\ \/ Unset(q, "t")
         \/ /\ ParseInt(Get(q, "t")).ok
            /\ ~(ParseInt(Get(q, "t")).val < l.tNow)
      /\ \/ Unset(q, "persist")
         \/ ParseBool(Get(q, "persist")).ok

Absent(q, k) == k \notin DOMAIN q
AbsentOrEmpty(q, k) == k \notin DOMAIN q \/ q[k] = <<>>

SuspendGate(Unset(_, _)) ==
  \A r \in DOMAIN req :
    req[r].route = "suspend" =>
      /\ Called(r, "SuspendMarket") => SuspendValid(r, Unset)
      /\ Handled(r, "suspend") /\ ~SuspendValid(r, Unset) =>
           IsBadRequest(r) /\ ~Called(r, "SuspendMarket")

\* C1 as stated: SuspendMarket is called only if MarketRunning reported the
\* lowercased market found and running, t is absent or parses as an integer
\* time not strictly before the current time, and persist is absent or
\* parses as a boolean; every other suspend request ends with a 400 and no
\* SuspendMarket call.
C1_Original == SuspendGate(Absent)

\* C1 as amended: the same, where a parameter that is present with an empty
\* value counts as absent: SuspendMarket is called only if the market was
\* reported found and running, t is absent or empty or parses as an integer
\* time not before the current time, and persist is absent or empty or
\* parses as a boolean; every other suspend request ends with a 400 and no
\* SuspendMarket call.
C1_SuspendGate == SuspendGate(AbsentOrEmpty)

\* A suspend request with an explicit time was accepted and forwarded.
C1_Witness ==
  \E r \in DOMAIN req :
    /\ Handled(r, "suspend") /\ Called(r, "SuspendMarket")
    /\ Get(req[r].query, "t") # <<>>

\* The one SuspendMarket call of the request on connection r.
SuspendCallOf(r) == req[r].calls[1]

\* C7: every accepted suspend request makes exactly one SuspendMarket call,
\* with the lowercased market name, the zero time when t is absent or empty
\* and otherwise exactly the time parsed from t, and persistBook true when
\* persist is absent or empty and otherwise exactly the parsed boolean; a
\* supplied t is never turned into the zero "as soon as possible" time.
C7_ForwardedArguments ==
  \A r \in DOMAIN req :
    req[r].route = "suspend" =>
      LET q == req[r].query
          accepted == Handled(r, "suspend") /\ ~IsBadRequest(r)
      IN  /\ Len(req[r].calls) <= 1
          /\ accepted =>
               /\ Len(req[r].calls) = 1
               /\ SuspendCallOf(r).fn = "SuspendMarket"
               /\ SuspendCallOf(r).mkt = ToLower(req[r].path)
               /\ SuspendCallOf(r).time =
                    IF AbsentOrEmpty(q, "t") THEN ZeroTimeMs
                    ELSE ParseInt(q["t"]).val
               /\ SuspendCallOf(r).persistBook =
                    IF AbsentOrEmpty(q, "persist") THEN TRUE
                    ELSE ParseBool(q["persist"]).val
               /\ ~AbsentOrEmpty(q, "t") => SuspendCallOf(r).time # ZeroTimeMs

\* A request in upper case with neither t nor persist was forwarded with the
\* lowercased name, the zero time and persistBook true.
C7_Witness ==
  \E r \in DOMAIN req :
    /\ Handled(r, "suspend") /\ Called(r, "SuspendMarket")
    /\ req[r].path = DcrBtcUpper
    /\ DOMAIN req[r].query = {}
    /\ SuspendCallOf(r).mkt = DcrBtc
    /\ SuspendCallOf(r).time = ZeroTimeMs
    /\ SuspendCallOf(r).persistBook

\* C5: for every suspend request that passes validation, the response is a
\* 200 SuspendResult if and only if SuspendMarket returned a SuspendEpoch,
\* and then finalEpoch and suspendTime are the index and end time returned;
\* if SuspendMarket returned absent the response is a 500, never a 4xx and
\* never a SuspendResult.
C5_SuspendResult ==
  \A r \in DOMAIN req :
    Handled(r, "suspend") =>
      /\ Called(r, "SuspendMarket") =>
           LET ret == SuspendCallOf(r).ret
           IN  IF ret = <<>>
               THEN /\ req[r].resp.code = StatusInternalServerError
                    /\ req[r].resp.kind = "error"
               ELSE /\ req[r].resp.code = StatusOK
                    /\ req[r].resp.kind = "SuspendResult"
                    /\ req[r].resp.Market = ToLower(req[r].path)
                    /\ req[r].resp.FinalEpoch = ret[1].Idx
                    /\ req[r].resp.SuspendTime = ret[1].End
      /\ req[r].resp.kind = "SuspendResult" =>
           Called(r, "SuspendMarket") /\ SuspendCallOf(r).ret # <<>>

\* A suspension was scheduled and its final epoch reported.
C5_Witness ==
  \E r \in DOMAIN req :
    /\ Handled(r, "suspend") /\ Called(r, "SuspendMarket")
    /\ SuspendCallOf(r).ret # <<>>
    /\ req[r].resp.kind = "SuspendResult"
    /\ req[r].resp.FinalEpoch = MaxEpoch

\* C4 as stated: whenever SuspendMarket is invoked, the market exists and
\* is running at that moment and the forwarded suspend time is zero or not
\* before the clock at that moment.
C4_Original ==
  \A r \in DOMAIN req :
    \A i \in DOMAIN req[r].calls :
      LET c == req[r].calls[i]
      IN  c.fn = "SuspendMarket" =>
            /\ c.at.found /\ c.at.running
            /\ c.time = ZeroTimeMs \/ c.time >= c.at.now

\* C4 as amended: a request invokes SuspendMarket at most once, with the
\* values it validated, and only after its own MarketRunning call reported
\* the market found and running and its own time check found the suspend
\* time zero or not before the clock it read then. The checks and the call
\* are separate steps: by the time SuspendMarket is invoked the market may
\* have stopped and the time may lie in the past.
C4_CheckedThenForwarded ==
  [][\A r \in DOMAIN req :
       /\ (req[r].pc = "handler" /\ req'[r].pc = "validate") =>
            /\ MarketRunning(ToLower(req[r].path)).found
            /\ MarketRunning(ToLower(req[r].path)).running
       /\ (req[r].pc = "validate" /\ req'[r].pc = "call") =>
            \/ req'[r].loc.suspTime = ZeroTimeMs
            \/ req'[r].loc.suspTime >= now
       /\ req'[r].pc = "call" => req[r].pc \in {"validate", "call"}
       /\ req'[r].pc = "validate" => req[r].pc \in {"handler", "validate"}
       /\ req'[r].calls # req[r].calls /\ req'[r].calls # <<>> =>
            /\ req[r].pc = "call" /\ req[r].calls = <<>>
            /\ Len(req'[r].calls) = 1
            /\ req'[r].calls[1].mkt = req[r].loc.mkt
            /\ req'[r].calls[1].time = req[r].loc.suspTime
            /\ req'[r].calls[1].persistBook = req[r].loc.persistBook
    ]_vars

\* SuspendMarket was invoked for a market that had stopped since the
\* request checked it, with a time that had passed since it was checked.
C4_Witness ==
  \E r \in DOMAIN req :
    /\ Called(r, "SuspendMarket")
    /\ req[r].loc.found /\ req[r].loc.running
    /\ ~SuspendCallOf(r).at.running
    /\ SuspendCallOf(r).time # ZeroTimeMs
    /\ SuspendCallOf(r).time < SuspendCallOf(r).at.now

\* The one Penalize call of the request on connection r.
PenalizeCallOf(r) == req[r].calls[1]

\* The checks of a ban request, from its inputs: the identifier decodes from
\* hex to HashSize bytes and the rule is an integer in [1, MaxRule).
BanValid(r) ==
  LET id   == DecodeString(req[r].path)
      rule == Atoi(Get(req[r].query, "rule"))
  IN  /\ id.ok /\ Len(id.bytes) = HashSize
      /\ rule.ok /\ rule.val \in 1..(MaxRule - 1)

\* C2: Penalize is called only if the account identifier decodes from hex
\* to exactly 32 bytes and rule is an integer in [1, MaxRule); rule 0, a
\* rule at or above MaxRule, a missing or non-integer rule, and an
\* identifier of the wrong length whatever the rule, all end with a 400 and
\* no Penalize call.
C2_BanGate ==
  \A r \in DOMAIN req :
    req[r].route = "ban" =>
      /\ Called(r, "Penalize") =>
           /\ BanValid(r)
           /\ Len(req[r].calls) = 1
           /\ PenalizeCallOf(r).acctID = DecodeString(req[r].path).bytes
           /\ PenalizeCallOf(r).rule = Atoi(Get(req[r].query, "rule")).val
      /\ Handled(r, "ban") /\ ~BanValid(r) =>
           IsBadRequest(r) /\ ~Called(r, "Penalize")

\* The minimum valid rule, written with an identifier in mixed case, was
\* forwarded to Penalize.
C2_Witness ==
  \E r \in DOMAIN req :
    /\ Handled(r, "ban") /\ Called(r, "Penalize")
    /\ req[r].path = AcctMixed
    /\ PenalizeCallOf(r).rule = 1

\* C6: for every ban request that passes validation, a 200 BanResult is
\* produced only after Penalize reported success, and it carries the
\* requested account identifier and the requested rule unchanged (brokenRule
\* is the rule passed to Penalize); if Penalize reports failure the response
\* is a 500 and no BanResult.
C6_BanResult ==
  \A r \in DOMAIN req :
    Handled(r, "ban") =>
      /\ req[r].resp.kind = "BanResult" =>
           /\ Called(r, "Penalize") /\ PenalizeCallOf(r).ok
           /\ req[r].resp.code = StatusOK
           /\ req[r].resp.AccountID = req[r].path
           /\ req[r].resp.BrokenRule = Atoi(Get(req[r].query, "rule")).val
           /\ req[r].resp.BrokenRule = PenalizeCallOf(r).rule
      /\ Called(r, "Penalize") =>
           IF PenalizeCallOf(r).ok
           THEN req[r].resp.kind = "BanResult"
           ELSE /\ req[r].resp.code = StatusInternalServerError
                /\ req[r].resp.kind = "error"

\* Penalize failed and the request was answered 500.
C6_Witness ==
  \E r \in DOMAIN req :
    /\ Handled(r, "ban") /\ Called(r, "Penalize")
    /\ ~PenalizeCallOf(r).ok
    /\ req[r].resp.code = StatusInternalServerError

\* C9: the accountID written in a BanResult is the lower-case 64-character
\* hex encoding of the 32-byte identifier that was passed to Penalize, also
\* when the path presents the identifier in upper or mixed case.
C9_LowercaseAccountID ==
  \A r \in DOMAIN req :
    Handled(r, "ban") /\ req[r].resp.kind = "BanResult" =>
      /\ Len(req[r].resp.AccountID) = 2 * HashSize
      /\ req[r].resp.AccountID = EncodeToString(PenalizeCallOf(r).acctID)

\* The status the collaborator gave, presented as the claims describe it:
\* persistBook is carried if and only if suspendEpoch is, that is when the
\* collaborator's suspend epoch is set, and is then the collaborator's.
StatusFlags(ms, status) ==
  /\ "persistBook" \in JSONFields(ms) <=> "suspendEpoch" \in JSONFields(ms)
  /\ "suspendEpoch" \in JSONFields(ms) <=> status.SuspendEpoch # 0
  /\ "persistBook" \in JSONFields(ms) => ms.PersistBook = <<status.PersistBook>>
  /\ "suspendEpoch" \in JSONFields(ms) => ms.SuspendEpoch = status.SuspendEpoch

\* C8: in every market status returned by /markets or /market/{name},
\* persistBook is present if and only if suspendEpoch is set, and then it
\* is the collaborator's PersistBook; a status with no scheduled suspension
\* carries neither suspendEpoch nor persistBook.
C8_PersistWithSuspend ==
  \A r \in DOMAIN req :
    /\ Handled(r, "market") /\ req[r].resp.kind = "MarketStatus" =>
         StatusFlags(req[r].resp.body, req[r].loc.status[1])
    /\ Handled(r, "markets") =>
         /\ DOMAIN req[r].resp.body = DOMAIN req[r].loc.statuses
         /\ \A name \in DOMAIN req[r].resp.body :
              StatusFlags(req[r].resp.body[name], req[r].loc.statuses[name])

\* /markets returned one market with a scheduled suspension that purges the
\* book, and one with no suspension whose collaborator status still holds a
\* PersistBook of false.
C8_Witness ==
  \E r \in DOMAIN req :
    /\ Handled(r, "markets")
    /\ \E a, b \in DOMAIN req[r].resp.body :
         /\ req[r].resp.body[a].PersistBook = <<FALSE>>
         /\ req[r].loc.statuses[b].SuspendEpoch = 0
         /\ ~req[r].loc.statuses[b].PersistBook
         /\ req[r].resp.body[b].PersistBook = <<>>

\* C10: the status returned by /market/{name} agrees with that market's
\* entry in /markets on every field other than the name, each being the
\* collaborator's value for that field (startEpoch is the collaborator's
\* StartEpoch in both).
C10_SameStatus ==
  \A r \in DOMAIN req :
    Handled(r, "market") /\ req[r].resp.kind = "MarketStatus" =>
      /\ [req[r].resp.body EXCEPT !.Name = <<>>] = marketsEntry(req[r].loc.status[1])
      /\ req[r].resp.body.StartEpoch = req[r].loc.status[1].StartEpoch

\* C3: the wrapped handler runs if and only if the presented password is
\* the configured one, whatever the user name; a blank, wrong or truncated
\* password is answered 401 before any handler logic or collaborator call.
C3_PasswordOnly ==
  \A r \in DOMAIN req :
    req[r].route # "none" =>
      /\ req[r].resp.code # StatusUnauthorized <=>
           req[r].hasAuth /\ req[r].pass = Password
      /\ req[r].resp.code = StatusUnauthorized =>
           /\ req[r].pc = "done"
           /\ req[r].calls = <<>>
           /\ req[r].loc = NoLoc

\* A request with a blank user name and the correct password was handled
\* and called the collaborator.
C3_Witness ==
  \E r \in DOMAIN req :
    /\ req[r].user = <<>> /\ req[r].pass = Password
    /\ req[r].pc = "done"
    /\ req[r].calls # <<>>

=============================================================================
